---- MODULE Spec2Model ----
(***************************************************************************)
(* A model of Satellites-Dataset-Download/utils.py: the QA bit extraction  *)
(* and cloud mask, the band normalisation, the circular polygon, the       *)
(* creation of the video export tasks and their start in batches.          *)
(*                                                                         *)
(* Python strings are sequences of one-character strings, so that          *)
(* str.replace and os.path.join are computed and not assumed.  Server-side *)
(* rasters are modelled by the value of one pixel.                         *)
(***************************************************************************)
EXTENDS Integers, Sequences, FiniteSets, TLC

VARIABLES qaSt, normSt, geoSt,
          fs, bands, batch, objects, pending, startLog, creates, ret, sm, drain

vars == <<qaSt, normSt, geoSt,
          fs, bands, batch, objects, pending, startLog, creates, ret, sm, drain>>

pipeVars == <<fs, bands, batch, objects, pending, startLog, creates, ret, sm, drain>>

(***************************************************************************)
(* Bounds of the model.                                                    *)
(***************************************************************************)
\* StateQA values are 0 .. 2^QAWidth - 1
QAWidth == 14
\* pixel values of a band are 0 .. MaxPixel
MaxPixel == 4
\* an image collection holds 1 .. MaxImages images
MaxImages == 3
\* polygon areas are 1 .. MaxArea square kilometres
MaxArea == 120
\* band lists hold 0 .. MaxBands names
MaxBands == 4
\* start_multiple_tasks is called with n in 0 .. MaxBatch
MaxBatch == 2
\* at most MaxCreates calls of a task-creating function in one run
MaxCreates == 1
\* at most MaxCalls calls of start_multiple_tasks on one task list
MaxCalls == 3

Min(a, b) == IF a < b THEN a ELSE b

Max(a, b) == IF a < b THEN b ELSE a

(***************************************************************************)
(* getQABits and maskCloud                                                 *)
(***************************************************************************)
RECURSIVE bitwiseAnd(_, _)
bitwiseAnd(a, b) ==
  IF a = 0 \/ b = 0 THEN 0
  ELSE (a % 2) * (b % 2) + 2 * bitwiseAnd(a \div 2, b \div 2)

rightShift(a, k) == a \div (2 ^ k)

\* pattern = 0; for i in range(start, end): pattern += 2**i
RECURSIVE QAPattern(_, _)
QAPattern(start, end) ==
  IF start >= end THEN 0 ELSE 2 ^ start + QAPattern(start + 1, end)

\* image.select([0], [newName]).bitwiseAnd(pattern).rightShift(start), on one pixel
getQABits(image, start, end, newName) ==
  [band |-> newName,
   value |-> rightShift(bitwiseAnd(image, QAPattern(start, end)), start)]

\* image.updateMask(m): a pixel stays valid when it was valid and m is non-zero
updateMask(image, m) ==
  [image EXCEPT !.mask = IF image.mask = 1 /\ m # 0 THEN 1 ELSE 0]

\* internalQuality.eq(0)
eq(v, c) == IF v = c THEN 1 ELSE 0

maskCloud(image) ==
  LET QA == image.StateQA
      internalQuality == getQABits(QA, 8, 13, "internal_quality_flag")
  IN  updateMask(image, eq(internalQuality.value, 0))

QAValues == 0 .. (2 ^ QAWidth - 1)

QAIdle == [op |-> "none", qa |-> 0, inMask |-> 1, mask |-> 1, start |-> 0, end |-> 0,
           band |-> "StateQA", value |-> 0]

QAInit == qaSt \in {[QAIdle EXCEPT !.qa = v] : v \in QAValues}

\* a call getQABits(QA, start, end, "bits") on a pixel of value qaSt.qa
CallGetQABits ==
  /\ qaSt.op = "none"
  /\ \E start \in 0 .. QAWidth : \E end \in start .. QAWidth :
       LET r == getQABits(qaSt.qa, start, end, "bits")
       IN  qaSt' = [qaSt EXCEPT !.op = "getQABits", !.start = start, !.end = end,
                                !.band = r.band, !.value = r.value]
  /\ UNCHANGED <<normSt, geoSt, pipeVars>>

\* a call maskCloud(image) on a pixel whose StateQA is qaSt.qa, valid (1) or masked (0)
CallMaskCloud ==
  /\ qaSt.op = "none"
  /\ \E m \in {0, 1} :
       LET out == maskCloud([StateQA |-> qaSt.qa, mask |-> m])
       IN  qaSt' = [qaSt EXCEPT !.op = "maskCloud", !.inMask = m, !.mask = out.mask]
  /\ UNCHANGED <<normSt, geoSt, pipeVars>>

(***************************************************************************)
(* norm_band                                                               *)
(***************************************************************************)
NormBands == {"b1", "b2"}

Pixels == 0 .. MaxPixel

Collections == UNION {[1 .. k -> [NormBands -> Pixels]] : k \in 1 .. MaxImages}

\* colIm.min() / colIm.max() reduced over the polygon
minValue(imgcoll, band) ==
  CHOOSE m \in {imgcoll[i][band] : i \in DOMAIN imgcoll} :
    \A i \in DOMAIN imgcoll : m <= imgcoll[i][band]

maxValue(imgcoll, band) ==
  CHOOSE m \in {imgcoll[i][band] : i \in DOMAIN imgcoll} :
    \A i \in DOMAIN imgcoll : m >= imgcoll[i][band]

\* ((image - minValue) / (maxValue - minValue)) * 256, the exact quotient num / den
scaled(x, lo, hi) == [num |-> (x - lo) * 256, den |-> hi - lo]

\* .uint8(): the integer part when it fits 8 bits.  What the server makes of a
\* value that does not fit (saturation or wrap-around) is not in this code:
\* both are outcomes.  0/0 (maxValue = minValue) gives no value, written -1.
uint8Outcomes(q) ==
  IF q.den = 0 THEN {-1}
  ELSE LET v == q.num \div q.den
       IN  IF v \in 0 .. 255 THEN {v} ELSE {255, v % 256}

\* imgcoll.combine(colIm_norm, overwrite=True): only `band` is replaced
combine(imgcoll, band, colIm_norm) ==
  [i \in DOMAIN imgcoll |-> [imgcoll[i] EXCEPT ![band] = colIm_norm[i]]]

NormIdle == [op |-> "none", imgcoll |-> <<>>, band |-> "b1", lo |-> 0, hi |-> 0,
             pre |-> <<>>, out |-> <<>>]

NormInit == normSt \in {[NormIdle EXCEPT !.imgcoll = c] : c \in Collections}

CallNormBand ==
  /\ normSt.op = "none"
  /\ \E band \in NormBands :
       LET imgcoll == normSt.imgcoll
           lo == minValue(imgcoll, band)
           hi == maxValue(imgcoll, band)
           pre == [i \in DOMAIN imgcoll |-> scaled(imgcoll[i][band], lo, hi)]
           outcomes == UNION {uint8Outcomes(pre[i]) : i \in DOMAIN imgcoll}
       IN  \E colIm_norm \in [DOMAIN imgcoll -> outcomes] :
             /\ \A i \in DOMAIN imgcoll : colIm_norm[i] \in uint8Outcomes(pre[i])
             /\ normSt' = [normSt EXCEPT !.op = "norm_band", !.band = band,
                                         !.lo = lo, !.hi = hi, !.pre = pre,
                                         !.out = combine(imgcoll, band, colIm_norm)]
  /\ UNCHANGED <<qaSt, geoSt, pipeVars>>

(***************************************************************************)
(* create_circular_bb_polygon                                              *)
(***************************************************************************)
Latitudes == {40, 42}

Longitudes == {-93}

\* point_transformed.buffer(area*1000): a disc of that radius, in metres, around
\* the origin of the azimuthal equidistant projection centred on the point
create_circular_bb_polygon(center, area) ==
  LET point == [x |-> center[2], y |-> center[1]]
  IN  [lat_0 |-> point.y, lon_0 |-> point.x, radius |-> area * 1000]

GeoIdle == [op |-> "none", center |-> <<0, 0>>, area |-> 0,
            polygon |-> [lat_0 |-> 0, lon_0 |-> 0, radius |-> 0]]

GeoInit == geoSt = GeoIdle

CallCreateCircularBBPolygon ==
  /\ geoSt.op = "none"
  /\ \E lat \in Latitudes : \E lon \in Longitudes : \E area \in 1 .. MaxArea :
       geoSt' = [op |-> "create_circular_bb_polygon", center |-> <<lat, lon>>,
                 area |-> area,
                 polygon |-> create_circular_bb_polygon(<<lat, lon>>, area)]
  /\ UNCHANGED <<qaSt, normSt, pipeVars>>

(***************************************************************************)
(* Python strings, lists and paths                                         *)
(***************************************************************************)
Digits == <<"0", "1", "2", "3", "4", "5", "6", "7", "8", "9">>

\* str(n) of an int n >= 0
RECURSIVE str(_)
str(n) == IF n < 10 THEN <<Digits[n + 1]>> ELSE str(n \div 10) \o <<Digits[(n % 10) + 1]>>

\* s.replace(ch, "") for a one-character ch
replace(s, ch) == SelectSeq(s, LAMBDA c : c # ch)

\* a slice index as Python clamps it
SliceIndex(i, len) == IF i < 0 THEN Max(i + len, 0) ELSE Min(i, len)

\* s[lo:hi]
Slice(s, lo, hi) ==
  LET a == SliceIndex(lo, Len(s))
      b == SliceIndex(hi, Len(s))
  IN  IF a >= b THEN <<>> ELSE SubSeq(s, a + 1, b)

\* s[:hi]
SliceTo(s, hi) == Slice(s, 0, hi)

\* s[lo:]
SliceFrom(s, lo) == Slice(s, lo, Len(s))

\* os.path.join(a, b)
path_join2(a, b) ==
  IF Len(b) > 0 /\ b[1] = "/" THEN b
  ELSE IF Len(a) = 0 \/ a[Len(a)] = "/" THEN a \o b
  ELSE a \o <<"/">> \o b

\* os.path.join(a, b, c)
path_join(a, b, c) == path_join2(path_join2(a, b), c)

\* '/content/drive/MyDrive/'
DriveRoot ==
  <<"/", "c", "o", "n", "t", "e", "n", "t", "/", "d", "r", "i", "v", "e", "/",
    "M", "y", "D", "r", "i", "v", "e", "/">>

Mp4 == <<".", "m", "p", "4">>

\* a faulty variant, to show what the properties detect: the test of line 149 without its `not`
os_path_missing(disk, path) == path \notin disk

\* os.path.exists(path)
os_path_exists(disk, path) == path \in disk

(***************************************************************************)
(* create_export_vid_bands_task and create_export_tasks_for_all_bands      *)
(***************************************************************************)
\* ee.batch.Export.video.toDrive(...): a task object, not started
create_export_vid_bands_task(id, vid_collection, folder_name, vid_name) ==
  [id |-> id, collection |-> vid_collection, description |-> vid_name,
   folder |-> folder_name]

\* a faulty variant, to show what the properties detect: the chunks as cut, the last one not replaced by bands[-3:]
chunksNoTail(bandList) ==
  LET cut == [k \in 1 .. ((Len(bandList) + 2) \div 3) |->
                Slice(bandList, 3 * (k - 1), 3 * (k - 1) + 3)]
  IN  IF Len(cut) = 0 THEN [status |-> "IndexError", chunks |-> <<>>]
      ELSE [status |-> "ok", chunks |-> cut]

\* chunks = [bands[x:x+3] for x in range(0, len(bands), 3)]; chunks[-1] = bands[-3:]
\* (an IndexError on an empty list, given as the status)
chunksOf(bandList) ==
  LET cut == [k \in 1 .. ((Len(bandList) + 2) \div 3) |->
                Slice(bandList, 3 * (k - 1), 3 * (k - 1) + 3)]
  IN  IF Len(cut) = 0 THEN [status |-> "IndexError", chunks |-> <<>>]
      ELSE [status |-> "ok",
            chunks |-> [cut EXCEPT ![Len(cut)] = SliceFrom(bandList, -3)]]

\* 'bands:' + b0 + ',' + b1 + ',' + b2 + ';loc:' + str(loc_id) + ';s:' + start_date
\* + ';e:' + end_date, then the two replace calls
vidName(bands_chunk, loc_id, start_date, end_date) ==
  LET raw == <<"b", "a", "n", "d", "s", ":">> \o bands_chunk[1] \o <<",">>
               \o bands_chunk[2] \o <<",">> \o bands_chunk[3]
               \o <<";", "l", "o", "c", ":">> \o str(loc_id)
               \o <<";", "s", ":">> \o start_date \o <<";", "e", ":">> \o end_date
  IN  replace(replace(raw, "'"), ".")

\* the path tested at line 149
outputPath(folder_name, vid_name) == path_join(DriveRoot, folder_name, vid_name \o Mp4)

\* the loop of lines 140-154 from chunk k on; acc is the list `tasks` so far
RECURSIVE exportLoop(_, _, _, _, _, _, _, _, _)
exportLoop(disk, chunks, k, acc, id, folder_name, loc_id, start_date, end_date) ==
  IF k > Len(chunks) THEN [status |-> "returned", tasks |-> acc]
  ELSE LET bands_chunk == chunks[k]
       IN  IF Len(bands_chunk) < 3 THEN [status |-> "IndexError", tasks |-> <<>>]
           ELSE LET vid_name == vidName(bands_chunk, loc_id, start_date, end_date)
                    task == create_export_vid_bands_task(id, bands_chunk, folder_name,
                                                         vid_name)
                IN  IF ~ os_path_exists(disk, outputPath(folder_name, vid_name))
                    THEN exportLoop(disk, chunks, k + 1, Append(acc, task), id + 1,
                                    folder_name, loc_id, start_date, end_date)
                    ELSE exportLoop(disk, chunks, k + 1, acc, id,
                                    folder_name, loc_id, start_date, end_date)

\* create_export_tasks_for_all_bands; id is the identity of the next task object
create_export_tasks_for_all_bands(disk, bandList, folder_name, loc_id, start_date, end_date, id) ==
  LET c == chunksOf(bandList)
  IN  IF c.status # "ok" THEN [status |-> "IndexError", tasks |-> <<>>]
      ELSE exportLoop(disk, c.chunks, 1, <<>>, id, folder_name, loc_id, start_date,
                      end_date)

(***************************************************************************)
(* get_loc_satellite_tasks and get_loc_tasks                               *)
(***************************************************************************)
\* sat_folder_path = '/content/drive/MyDrive/' + folder_name; os.mkdir when missing
makeFolder(disk, folder_name) ==
  IF ~ os_path_exists(disk, DriveRoot \o folder_name)
  THEN disk \cup {DriveRoot \o folder_name}
  ELSE disk

\* the loop over the periods from period i on; acc is `tasks`, calls the results
\* of the calls of create_export_tasks_for_all_bands made so far
RECURSIVE periodLoop(_, _, _, _, _, _, _, _, _)
periodLoop(disk, bandList, periods, i, acc, calls, id, folder_name, loc_id) ==
  IF i > Len(periods) THEN [status |-> "returned", tasks |-> acc, calls |-> calls]
  ELSE LET r == create_export_tasks_for_all_bands(disk, bandList, folder_name, loc_id,
                                                  periods[i].s, periods[i].e, id)
           call == [start_date |-> periods[i].s, end_date |-> periods[i].e,
                    status |-> r.status, tasks |-> r.tasks]
       IN  IF r.status # "returned"
           THEN [status |-> r.status, tasks |-> <<>>, calls |-> Append(calls, call)]
           ELSE periodLoop(disk, bandList, periods, i + 1, acc \o r.tasks,
                           Append(calls, call), id + Len(r.tasks), folder_name, loc_id)

get_loc_satellite_tasks(disk, bandList, periods, loc_id, folder_name, id) ==
  LET disk1 == makeFolder(disk, folder_name)
      r == periodLoop(disk1, bandList, periods, 1, <<>>, <<>>, id, folder_name, loc_id)
  IN  [status |-> r.status, tasks |-> r.tasks, calls |-> r.calls, disk |-> disk1]

\* start_date = str(int(year)) + '-04-01'; end_date = str(int(year)) + '-09-30'
yearPeriod(year) ==
  [s |-> str(year) \o <<"-", "0", "4", "-", "0", "1">>,
   e |-> str(year) \o <<"-", "0", "9", "-", "3", "0">>]

get_loc_tasks(disk, year, loc_id, folder_name, bandList, id) ==
  get_loc_satellite_tasks(disk, bandList, <<yearPeriod(year)>>, loc_id, folder_name, id)

(***************************************************************************)
(* start_task and start_multiple_tasks                                     *)
(***************************************************************************)
\* a faulty variant, to show what the properties detect: remaining_tasks = tasks[n + 1:]
remainingSkipsOne(tasks, n) == SliceFrom(tasks, Min(n, Len(tasks)) + 1)

\* a faulty variant, to show what the properties detect: to_be_started_tasks = tasks[:min(n, len(tasks)) + 1]
toBeStartedOneMore(tasks, n) == SliceTo(tasks, Min(n, Len(tasks)) + 1)

\* to_be_started_tasks = tasks[:min(n, len(tasks))]
toBeStarted(tasks, n) == SliceTo(tasks, Min(n, Len(tasks)))

\* remaining_tasks = tasks[min(n, len(tasks)):]
remainingOf(tasks, n) == SliceFrom(tasks, Min(n, Len(tasks)))

\* the loop of lines 181-183: task.start() on each, in order; log is every
\* start() made so far
RECURSIVE startLoop(_, _, _)
startLoop(to_be_started_tasks, k, log) ==
  IF k > Len(to_be_started_tasks) THEN log
  ELSE startLoop(to_be_started_tasks, k + 1, Append(log, to_be_started_tasks[k]))

start_multiple_tasks(tasks, n, log) ==
  LET to_be_started_tasks == toBeStarted(tasks, n)
      remaining_tasks == remainingOf(tasks, n)
  IN  [started |-> to_be_started_tasks, remaining |-> remaining_tasks,
       log |-> startLoop(to_be_started_tasks, 1, log)]

(***************************************************************************)
(* The inputs and the state machine of the task pipeline.  Lists hold      *)
(* references: `objects` maps the identity of a task object to the object, *)
(* and pending, startLog, ret, sm and drain hold identities.               *)
(***************************************************************************)
BandNames == {<<"B", "1">>, <<"B", ".", "2">>}

BandLists == UNION {[1 .. k -> BandNames] : k \in 0 .. MaxBands}

FolderName == <<"M", "O", "D">>

LocIds == {12}

Years == {2020}

PeriodLists == {<<>>, <<yearPeriod(2020), yearPeriod(2021)>>}

\* the video the platform writes for a task: '<description>.mp4' in the Drive
\* folder named by the task
driveFile(folder_name, description) ==
  DriveRoot \o folder_name \o <<"/">> \o description \o Mp4

\* the videos of earlier sessions that Drive may already hold when a session
\* starts: those of the band list, for the years of Years
EarlierVideos(bandList) ==
  LET c == chunksOf(bandList)
  IN  IF c.status # "ok" THEN {}
      ELSE {driveFile(FolderName,
                      vidName(c.chunks[k], loc_id, yearPeriod(y).s, yearPeriod(y).e)) :
              k \in {j \in DOMAIN c.chunks : Len(c.chunks[j]) = 3},
              loc_id \in LocIds, y \in Years}

Ids(tasks) == [k \in DOMAIN tasks |-> tasks[k].id]

NextId == Cardinality(DOMAIN objects) + 1

NoRet == [fn |-> "none", status |-> "none", tasks |-> <<>>, calls |-> <<>>, disk |-> {}]

NoSm == [called |-> FALSE, tasks |-> <<>>, n |-> 0, started |-> <<>>,
         remaining |-> <<>>, log |-> <<>>]

NoDrain == [orig |-> <<>>, calls |-> 0, log |-> <<>>]

PipeIdle ==
  /\ fs = {DriveRoot}
  /\ bands = <<>>
  /\ batch = 0
  /\ objects = <<>>
  /\ pending = <<>>
  /\ startLog = <<>>
  /\ creates = 0
  /\ ret = NoRet
  /\ sm = NoSm
  /\ drain = NoDrain

PipeInit ==
  /\ bands \in BandLists
  /\ \E old \in SUBSET EarlierVideos(bands) : fs = {DriveRoot} \cup old
  /\ batch \in 0 .. MaxBatch
  /\ objects = <<>>
  /\ pending = <<>>
  /\ startLog = <<>>
  /\ creates = 0
  /\ ret = NoRet
  /\ sm = NoSm
  /\ drain = NoDrain

\* the caller keeps the list a task-creating function returned; an exception
\* leaves the caller with what it had
Returned(fn, r, disk) ==
  /\ creates' = creates + 1
  /\ fs' = disk
  /\ objects' = objects \o r.tasks
  /\ ret' = [fn |-> fn, status |-> r.status, tasks |-> Ids(r.tasks),
             calls |-> [k \in DOMAIN r.calls |->
                          [r.calls[k] EXCEPT !.tasks = Ids(r.calls[k].tasks)]],
             disk |-> disk]
  /\ IF r.status = "returned"
     THEN /\ pending' = Ids(r.tasks)
          /\ drain' = [orig |-> Ids(r.tasks), calls |-> 0, log |-> <<>>]
     ELSE UNCHANGED <<pending, drain>>
  /\ UNCHANGED <<bands, batch, startLog, sm, qaSt, normSt, geoSt>>

CallCreateExportTasksForAllBands ==
  /\ creates < MaxCreates
  /\ \E loc_id \in LocIds : \E year \in Years :
       LET p == yearPeriod(year)
           r == create_export_tasks_for_all_bands(fs, bands, FolderName, loc_id,
                                                  p.s, p.e, NextId)
           call == [start_date |-> p.s, end_date |-> p.e, status |-> r.status,
                    tasks |-> r.tasks]
       IN  Returned("create_export_tasks_for_all_bands",
                    [status |-> r.status, tasks |-> r.tasks, calls |-> <<call>>], fs)

CallGetLocSatelliteTasks ==
  /\ creates < MaxCreates
  /\ \E loc_id \in LocIds : \E periods \in PeriodLists :
       LET r == get_loc_satellite_tasks(fs, bands, periods, loc_id, FolderName, NextId)
       IN  Returned("get_loc_satellite_tasks", r, r.disk)

CallGetLocTasks ==
  /\ creates < MaxCreates
  /\ \E loc_id \in LocIds : \E year \in Years :
       LET r == get_loc_tasks(fs, year, loc_id, FolderName, bands, NextId)
       IN  Returned("get_loc_tasks", r, r.disk)

\* started, remaining = start_multiple_tasks(remaining, n), by a caller that
\* goes on while tasks remain (and may call once on an empty list)
CallStartMultipleTasks ==
  /\ drain.calls < MaxCalls
  /\ pending # <<>> \/ drain.calls = 0
  /\ LET r == start_multiple_tasks(pending, batch, startLog)
         new == SubSeq(r.log, Len(startLog) + 1, Len(r.log))
     IN  /\ sm' = [called |-> TRUE, tasks |-> pending, n |-> batch,
                   started |-> r.started, remaining |-> r.remaining, log |-> new]
         /\ startLog' = r.log
         /\ pending' = r.remaining
         /\ drain' = [drain EXCEPT !.calls = @ + 1, !.log = @ \o new]
  /\ UNCHANGED <<fs, bands, batch, objects, creates, ret, qaSt, normSt, geoSt>>

\* the platform finishes a started export and its video appears in Drive
DriveSync ==
  /\ \E k \in DOMAIN startLog :
       LET t == objects[startLog[k]]
           file == driveFile(t.folder, t.description)
       IN  /\ file \notin fs
           /\ fs' = fs \cup {file}
  /\ UNCHANGED <<bands, batch, objects, pending, startLog, creates, ret, sm, drain,
                 qaSt, normSt, geoSt>>

(***************************************************************************)
(* The specifications                                                      *)
(***************************************************************************)
Init == qaSt = QAIdle /\ normSt = NormIdle /\ geoSt = GeoIdle /\ PipeInit

Next ==
  \/ CallCreateExportTasksForAllBands
  \/ CallGetLocSatelliteTasks
  \/ CallGetLocTasks
  \/ CallStartMultipleTasks
  \/ DriveSync

Spec == Init /\ [][Next]_vars

QASpecInit == QAInit /\ normSt = NormIdle /\ geoSt = GeoIdle /\ PipeIdle

QANext == CallGetQABits \/ CallMaskCloud

QASpec == QASpecInit /\ [][QANext]_vars

NormSpecInit == NormInit /\ qaSt = QAIdle /\ geoSt = GeoIdle /\ PipeIdle

NormNext == CallNormBand

NormSpec == NormSpecInit /\ [][NormNext]_vars

GeoSpecInit == GeoInit /\ qaSt = QAIdle /\ normSt = NormIdle /\ PipeIdle

GeoNext == CallCreateCircularBBPolygon

GeoSpec == GeoSpecInit /\ [][GeoNext]_vars

(***************************************************************************)
(* The claims                                                              *)
(***************************************************************************)
\* '/content/drive/MyDrive/<folder_name>/<vid_name>.mp4'
VideoPath(folder_name, vid_name) == DriveRoot \o folder_name \o <<"/">> \o vid_name \o Mp4

IsVideo(path) == Len(path) >= 4 /\ SubSeq(path, Len(path) - 3, Len(path)) = Mp4

\* the chunks of the band list whose video is missing on `disk`, by index, in order
MissingChunks(chunks, disk, loc_id, start_date, end_date) ==
  SelectSeq([k \in DOMAIN chunks |-> k],
            LAMBDA k : VideoPath(FolderName, vidName(chunks[k], loc_id, start_date, end_date))
                         \notin disk)

CallLoc == CHOOSE l \in LocIds : TRUE

\* C1: a call of create_export_tasks_for_all_bands that returns has created and
\* returned, in order, one task for each band chunk whose file
\* '/content/drive/MyDrive/<folder_name>/<vid_name>.mp4' did not exist when it was
\* tested, and no other task; so a call made when every such file exists
\* returns the empty list.
C1_TaskIffFileMissing ==
  \A i \in DOMAIN ret.calls :
    LET c == ret.calls[i]
        chunks == chunksOf(bands).chunks
        missing == MissingChunks(chunks, ret.disk, CallLoc, c.start_date, c.end_date)
    IN  c.status = "returned" =>
          /\ Len(c.tasks) = Len(missing)
          /\ \A j \in DOMAIN c.tasks :
               /\ objects[c.tasks[j]].collection = chunks[missing[j]]
               /\ objects[c.tasks[j]].description =
                    vidName(chunks[missing[j]], CallLoc, c.start_date, c.end_date)
               /\ objects[c.tasks[j]].folder = FolderName
          /\ (missing = <<>> => c.tasks = <<>>)

\* a call that found the video of one chunk and missed that of another
C1_Witness ==
  \E i \in DOMAIN ret.calls :
    LET c == ret.calls[i]
        chunks == chunksOf(bands).chunks
        missing == MissingChunks(chunks, ret.disk, CallLoc, c.start_date, c.end_date)
    IN  /\ c.status = "returned"
        /\ Len(chunks) = 2
        /\ Len(missing) = 1
        /\ Len(c.tasks) = 1

\* C2: start_multiple_tasks(tasks, n) with n >= 0 starts the first
\* min(n, len(tasks)) tasks, each once and in list order, returns them as
\* `started` and the rest as `remaining`, started ++ remaining being tasks, and
\* starts no task of `remaining`.
C2_StartsFirstN ==
  (sm.called /\ sm.n >= 0) =>
    LET k == Min(sm.n, Len(sm.tasks))
    IN  /\ Len(sm.log) = k
        /\ \A j \in 1 .. k : sm.log[j] = sm.tasks[j]
        /\ sm.started = sm.log
        /\ sm.started \o sm.remaining = sm.tasks
        /\ \A j \in DOMAIN sm.remaining : \A l \in DOMAIN sm.log :
             sm.remaining[j] # sm.log[l]

\* a call that starts some tasks of the list and leaves others
C2_Witness ==
  /\ sm.called
  /\ sm.n >= 1
  /\ Len(sm.tasks) > sm.n
  /\ Len(sm.log) = sm.n
  /\ sm.remaining # <<>>

Ceil3(n) == (n + 2) \div 3

\* C3: with a band list of length >= 3 and no video on the disk, a call of
\* create_export_tasks_for_all_bands returns ceil(len(bands)/3) tasks, each
\* selecting 3 consecutive bands of the list, and every band of the list is
\* selected by some task.
C3_AllBandsInThrees ==
  \A i \in DOMAIN ret.calls :
    LET c == ret.calls[i]
    IN  (Len(bands) >= 3 /\ \A f \in ret.disk : ~ IsVideo(f)) =>
          /\ c.status = "returned"
          /\ Len(c.tasks) = Ceil3(Len(bands))
          /\ \E off \in [DOMAIN c.tasks -> 1 .. (Len(bands) - 2)] :
               /\ \A j \in DOMAIN c.tasks :
                    objects[c.tasks[j]].collection = SubSeq(bands, off[j], off[j] + 2)
               /\ \A b \in 1 .. Len(bands) :
                    \E j \in DOMAIN c.tasks : off[j] <= b /\ b <= off[j] + 2

\* a call on a band list whose length is no multiple of 3
C3_Witness ==
  \E i \in DOMAIN ret.calls :
    /\ Len(bands) = 4
    /\ \A f \in ret.disk : ~ IsVideo(f)
    /\ ret.calls[i].status = "returned"
    /\ Len(ret.calls[i].tasks) = 2

\* C4: getQABits gives bits start .. end of the QA value, the end bit included,
\* with bit start moved to bit 0.
C4_BitsStartToEndInclusive ==
  qaSt.op = "getQABits" =>
    qaSt.value = (qaSt.qa \div (2 ^ qaSt.start)) % (2 ^ (qaSt.end - qaSt.start + 1))

\* C5: with minValue < maxValue, the value norm_band computes before the uint8
\* conversion lies in 0 .. 255, is 0 for the minimum and 255 for the maximum,
\* and the other bands are unchanged.
C5_NormIn0To255 ==
  (normSt.op = "norm_band" /\ normSt.lo < normSt.hi) =>
    \A i \in DOMAIN normSt.imgcoll :
      LET x == normSt.imgcoll[i][normSt.band]
          q == normSt.pre[i]
      IN  /\ 0 <= q.num /\ q.num <= 255 * q.den
          /\ (x = normSt.lo => q.num = 0)
          /\ (x = normSt.hi => q.num = 255 * q.den)
          /\ \A b \in NormBands \ {normSt.band} : normSt.out[i][b] = normSt.imgcoll[i][b]

\* C6: the buffer radius r in metres satisfies pi * r^2 = area * 10^6; since
\* 3 < pi < 4 this needs 3 * r < (area * 10^6) / r < 4 * r.
C6_RadiusGivesArea ==
  geoSt.op = "create_circular_bb_polygon" =>
    LET r == geoSt.polygon.radius
        q == (geoSt.area * 1000000) \div r
    IN  3 * r <= q /\ q < 4 * r

\* C7: maskCloud keeps a valid pixel exactly when bits 8 .. 13 of its StateQA
\* value are all zero.
C7_MaskBits8To13 ==
  (qaSt.op = "maskCloud" /\ qaSt.inMask = 1) =>
    (qaSt.mask = 1 <=> (qaSt.qa \div (2 ^ 8)) % (2 ^ 6) = 0)

Occurrences(seq, x) == Cardinality({k \in DOMAIN seq : seq[k] = x})

CeilDiv(a, b) == (a + b - 1) \div b

\* C8: calling start_multiple_tasks with n >= 1 again and again on the list
\* the last call left, the tasks started so far followed by those left are the
\* created list; the list left is empty after ceil(len(tasks)/n) calls and not
\* before, and then every task was started once; a task that was created and
\* not yet passed to start_multiple_tasks was never started.
C8_DrainInOrder ==
  batch >= 1 =>
    /\ drain.log \o pending = drain.orig
    /\ (drain.calls >= CeilDiv(Len(drain.orig), batch)
          => pending = <<>> /\ drain.log = drain.orig)
    /\ (drain.calls < CeilDiv(Len(drain.orig), batch) => pending # <<>>)
    /\ \A k \in DOMAIN drain.orig :
         Occurrences(startLog, drain.orig[k])
           = IF \E j \in DOMAIN drain.log : drain.log[j] = drain.orig[k] THEN 1 ELSE 0
    /\ \A k \in DOMAIN pending : Occurrences(startLog, pending[k]) = 0

\* a list that took several calls to start
C8_Witness ==
  /\ batch >= 1
  /\ Len(drain.orig) > batch
  /\ drain.calls = CeilDiv(Len(drain.orig), batch)
  /\ pending = <<>>
  /\ drain.log = drain.orig

====
